---- MODULE Spec2Model ----
(***************************************************************************)
(* Negotiation lifecycle of inbox-negotiator: the inbound-email webhook,   *)
(* the analyze-response, negotiate and send-email edge functions and the   *)
(* record store they share.  Every handler is a request that runs as a     *)
(* sequence of steps, one step per access to the record store (each await  *)
(* on the store is a point where another request may be scheduled).        *)
(* Amounts are whole dollars; confidences are hundredths (0.8 is 80).      *)
(***************************************************************************)
EXTENDS Integers, Sequences, FiniteSets, Bags, TLC

\* ---------------------------------------------------------------- bounds
MaxDebts == 2
\* Requests served one at a time in a run; requests of a run in which one
\* request may start while another is in flight; the number of such starts
MaxRequests == 3
MaxRaceRequests == 2
MaxOverlaps == 1
MaxProcs == 2

\* ------------------------------------------------------------ value sets
Null == -1
NoVal == "none"

Procs == 1..MaxProcs
MsgIds == {"m1", "m2"}
OutboundId == "postmark"

Statuses ==
  {"received", "negotiating", "approved", "sent", "awaiting_response",
   "counter_negotiating", "requires_manual_review", "accepted", "rejected",
   "settled", "failed", "opted_out"}

InFlightStatuses == {"sent", "awaiting_response", "counter_negotiating"}

Intents == {"acceptance", "rejection", "counter_offer", "unclear"}

SuggestedActions == {"send_counter", "escalate_to_user"}

Confidences == {80, 90}

DebtAmounts == {0, 1000}

OfferAmounts == {Null, 600}

\* Bodies of inbound emails: the keyword classes the body contains and
\* the first dollar amount written in it (Null when there is none).
KeywordSets == {{}, {"accept"}, {"counter"}, {"stop"}, {"reject", "counter"}}

Bodies == [kw : KeywordSets, dollars : OfferAmounts]

NoBody == [kw |-> {}, dollars |-> Null]

\* ------------------------------------------------------------ records
NoMetadata ==
  [route |-> FALSE, aiEmail |-> NoVal, lastResponse |-> NoVal,
   emailSent |-> FALSE, prospectedSavings |-> Null, actualSavings |-> Null]

NoDebt ==
  [id |-> 0, status |-> NoVal, amount |-> 0, conversation_count |-> 0,
   negotiation_round |-> 1, projected_savings |-> 0, prospected_savings |-> 0,
   actual_savings |-> Null, negotiated_plan |-> FALSE, metadata |-> NoMetadata]

\* extractedTerms.paymentTerms: present or not, and each of its optional
\* numbers
NoPaymentTerms ==
  [present |-> FALSE, monthlyAmount |-> Null, numberOfPayments |-> Null,
   totalAmount |-> Null]

NoAnalysis ==
  [intent |-> NoVal, confidence |-> 0, requiresUserReview |-> FALSE,
   suggestedNextAction |-> NoVal, proposedAmount |-> Null,
   paymentTerms |-> NoPaymentTerms, reasoning |-> NoVal]

NoDebtInfo == [amount |-> 0, isDebtCollection |-> FALSE, successfullyParsed |-> FALSE, called |-> FALSE]

NoOptOutResult == [available |-> FALSE, isOptOut |-> FALSE, confidence |-> 0]

\* One call of a pure function: its name, its argument and, once it has
\* returned, its result
NoCall == [fn |-> NoVal, arg |-> NoVal, result |-> NoVal, returned |-> FALSE]

\* The local variables of a request.  redelivery is a history flag, not a
\* variable of the code: the webhook was handed a reply whose message id is
\* already stored as a reply of the debt it answers.
NoLocals ==
  [kind |-> NoVal, mid |-> NoVal, body |-> NoBody, redelivery |-> FALSE,
   optOutDetection |-> NoOptOutResult, hasOptOut |-> FALSE,
   debtInfo |-> NoDebtInfo, debt |-> NoDebt, analysis |-> NoAnalysis,
   newStatus |-> NoVal, newNegotiationRound |-> 0,
   shouldAutoRespond |-> FALSE, currentCount |-> 0]

VARIABLES debts, recent, messages, outbox, pc, loc, requests, overlaps, call

vars == <<debts, recent, messages, outbox, pc, loc, requests, overlaps, call>>

\* ------------------------------------------------------- the record store
DebtIds == 1..Len(debts)

\* update(patch).eq("id", id): patch is a function from column names to values
UpdateDebt(ds, id, patch) ==
  [ds EXCEPT ![id] =
     [f \in DOMAIN ds[id] |-> IF f \in DOMAIN patch THEN patch[f] ELSE ds[id][f]]]

\* last_message_at := now: the debt becomes the most recently written one
Touch(r, id) == <<id>> \o SelectSeq(r, LAMBDA x : x # id)

\* conversation_messages is a bag of rows
RECURSIVE Copies(_, _)
Copies(B, rows) ==
  IF rows = {} THEN 0
  ELSE LET r == CHOOSE x \in rows : TRUE
       IN B[r] + Copies(B, rows \ {r})

InsertMessage(B, row) == B (+) SetToBag({row})

MessagesOf(id) == Copies(messages, {r \in DOMAIN messages : r.debt_id = id})

MessagesWithId(mid) == Copies(messages, {r \in DOMAIN messages : r.message_id = mid})

\* update(patch).eq("message_id", mid) of analyze-response: every row that
\* carries the message id gets the debt, the type and the direction
UpdateMessages(B, mid, debtId, mtype) ==
  LET new(r) ==
        IF r.message_id = mid
        THEN [r EXCEPT !.debt_id = debtId, !.message_type = mtype,
                       !.direction = "inbound"]
        ELSE r
  IN [x \in {new(r) : r \in DOMAIN B} |->
        Copies(B, {r \in DOMAIN B : new(r) = x})]

Idle(p) == pc[p] = "idle"

Quiescent == \A p \in Procs : Idle(p)

Finish(p) ==
  /\ pc' = [pc EXCEPT ![p] = "idle"]
  /\ loc' = [loc EXCEPT ![p] = NoLocals]

Goto(p, label, locals) ==
  /\ pc' = [pc EXCEPT ![p] = label]
  /\ loc' = [loc EXCEPT ![p] = locals]

\* A debt of 1000 dollars that was received from message m0, given the
\* rule-based installment letter and sent
SentDebt ==
  [NoDebt EXCEPT
     !.id = 1, !.status = "sent", !.amount = 1000, !.conversation_count = 2,
     !.projected_savings = 100, !.prospected_savings = 100,
     !.negotiated_plan = TRUE,
     !.metadata = [NoMetadata EXCEPT !.route = TRUE, !.aiEmail = "installment",
                                     !.emailSent = TRUE,
                                     !.prospectedSavings = 100]]

InitialRow ==
  [debt_id |-> 1, message_id |-> "m0", message_type |-> "initial_debt",
   direction |-> "inbound"]

SentRow ==
  [debt_id |-> 1, message_id |-> OutboundId,
   message_type |-> "negotiation_sent", direction |-> "outbound"]

\* The empty store, or the store after one debt was received and sent
Init ==
  /\ \/ /\ debts = <<>>
        /\ recent = <<>>
        /\ messages = EmptyBag
        /\ outbox = EmptyBag
     \/ /\ debts = <<SentDebt>>
        /\ recent = <<1>>
        /\ messages = SetToBag({InitialRow, SentRow})
        /\ outbox = SetToBag({1})
  /\ pc = [p \in Procs |-> "idle"]
  /\ loc = [p \in Procs |-> NoLocals]
  /\ \/ requests = MaxRequests /\ overlaps = 0
     \/ requests = MaxRaceRequests /\ overlaps = MaxOverlaps
  /\ call = NoCall

\* ------------------------------------------------------- pure functions
\* JavaScript truthiness of an optional number: undefined and 0 are falsy
Truthy(n) == n # Null /\ n # 0

Max(a, b) == IF a > b THEN a ELSE b

\* Keyword fallback of the response classifier
getFallbackAnalysis(body) ==
  LET intent ==
        IF "accept" \in body.kw THEN "acceptance"
        ELSE IF "reject" \in body.kw THEN "rejection"
        ELSE IF "counter" \in body.kw THEN "counter_offer"
        ELSE IF "information" \in body.kw THEN "request_info"
        ELSE "unclear"
  IN [intent |-> intent,
      confidence |-> 60,
      requiresUserReview |-> TRUE,
      suggestedNextAction |->
        IF intent = "acceptance" THEN "mark_settled"
        ELSE IF intent = "rejection" THEN "escalate_to_user"
        ELSE IF intent = "counter_offer" THEN "send_counter"
        ELSE "escalate_to_user",
      proposedAmount |-> body.dollars,
      paymentTerms |-> NoPaymentTerms,
      reasoning |-> "fallback"]

\* What the generative classifier may return (any value of its schema)
AIAnalyses ==
  {a \in [intent : Intents, confidence : Confidences,
          requiresUserReview : BOOLEAN,
          suggestedNextAction : SuggestedActions,
          proposedAmount : OfferAmounts, paymentTerms : {NoPaymentTerms},
          reasoning : {"ai"}] :
     a.proposedAmount # Null => a.intent = "acceptance"}

\* analyzeEmailResponse: the generative result, or the fallback when the
\* key is missing or the call throws
analyzeEmailResponse(body) == AIAnalyses \cup {getFallbackAnalysis(body)}

\* What toFixed(2) prints for a positive number divided by 0: "Infinity"
Infinity == 999999999

\* toFixed(2) of numerator / denominator, for a positive numerator: the
\* number of hundredths, rounded to the nearest ("36.00" is 3600)
toFixed2(numerator, denominator) ==
  IF denominator = 0 THEN Infinity
  ELSE (2 * 100 * numerator + denominator) \div (2 * denominator)

\* calculateTimeValueBenefit: the present value of the payments at 5% a
\* year, 1/240 a month, so that each payment is worth 240/241 of the one
\* before it.  Computed in thousandths of a dollar, each term rounded to
\* the nearest thousandth; reported in hundredths as toFixed(2) does.
RECURSIVE presentValue(_, _)
presentValue(term, months) ==
  IF months = 0 THEN 0
  ELSE LET next == (term * 240 + 120) \div 241
       IN next + presentValue(next, months - 1)

NoTimeValue == [presentValueOfPayments |-> Null, timeValueBenefit |-> Null]

calculateTimeValueBenefit(originalAmount, monthlyPayment, months) ==
  LET pv == (presentValue(monthlyPayment * 1000, months) + 5) \div 10
  IN [presentValueOfPayments |-> pv,
      timeValueBenefit |-> originalAmount * 100 - pv]

NoStructure ==
  [type |-> NoVal, monthlyAmount |-> Null, numberOfPayments |-> Null,
   totalAmount |-> Null]

NoRelief ==
  [monthlyReduction |-> Null, extendedTermMonths |-> Null,
   totalCashFlowBenefit |-> Null]

\* financialBenefit: null, or one of the three objects the code builds (the
\* fields an object does not have are Null here)
NoBenefit ==
  [type |-> NoVal, amount |-> Null, percentage |-> Null,
   principalReduction |-> Null, cashFlowRelief |-> NoRelief,
   timeValueBenefit |-> NoTimeValue, monthlyReduction |-> Null,
   extendedTermMonths |-> Null, cashFlowBenefit |-> NoVal]

\* The accepted amount, the savings, the payment structure and the
\* financial benefit of an accepted offer
calculateFinancialOutcome(debt, analysis) ==
  LET originalAmount == debt.amount
      terms == analysis.paymentTerms
      acceptedAmount ==
        IF Truthy(analysis.proposedAmount) THEN analysis.proposedAmount
        ELSE IF terms.present /\ Truthy(terms.totalAmount) THEN terms.totalAmount
        ELSE IF Truthy(debt.metadata.prospectedSavings)
             THEN originalAmount - debt.metadata.prospectedSavings
        ELSE originalAmount
      paymentStructure ==
        IF terms.present
        THEN [type |-> "installment_plan",
              monthlyAmount |-> terms.monthlyAmount,
              numberOfPayments |-> terms.numberOfPayments,
              totalAmount |-> IF Truthy(terms.totalAmount) THEN terms.totalAmount
                              ELSE acceptedAmount]
        ELSE NoStructure
      planBenefit ==
        IF terms.present /\ Truthy(terms.monthlyAmount) /\ Truthy(terms.numberOfPayments)
        THEN [NoBenefit EXCEPT
                !.type = "payment_restructuring",
                !.principalReduction =
                   Max(0, originalAmount - terms.monthlyAmount * terms.numberOfPayments),
                !.cashFlowRelief =
                   [monthlyReduction |-> originalAmount - terms.monthlyAmount,
                    extendedTermMonths |-> terms.numberOfPayments,
                    totalCashFlowBenefit |->
                      (originalAmount - terms.monthlyAmount) * terms.numberOfPayments],
                !.timeValueBenefit =
                   calculateTimeValueBenefit(originalAmount, terms.monthlyAmount,
                                             terms.numberOfPayments)]
        ELSE NoBenefit
      actualSavings == Max(0, originalAmount - acceptedAmount)
      financialBenefit ==
        IF actualSavings > 0
        THEN [NoBenefit EXCEPT
                !.type = "principal_reduction",
                !.amount = actualSavings,
                !.percentage = toFixed2(actualSavings * 100, originalAmount)]
        ELSE IF terms.present /\ Truthy(paymentStructure.monthlyAmount)
        THEN [NoBenefit EXCEPT
                !.type = "payment_restructuring",
                !.monthlyReduction = originalAmount - paymentStructure.monthlyAmount,
                !.extendedTermMonths = paymentStructure.numberOfPayments,
                !.cashFlowBenefit =
                   IF originalAmount - paymentStructure.monthlyAmount > 0
                   THEN "cash flow relief" ELSE "Extended payment terms"]
        ELSE planBenefit
  IN [actualSavings |-> actualSavings,
      acceptedAmount |-> acceptedAmount,
      paymentStructure |-> paymentStructure,
      financialBenefit |-> financialBenefit,
      originalAmount |-> originalAmount]

\* A variant of shouldAutoRespond that drops the review flag
shouldAutoRespondOnConfidenceAlone(analysis) ==
  analysis.confidence > 80

\* shouldAutoRespond of the counter_offer case
shouldAutoRespond(analysis) ==
  ~analysis.requiresUserReview /\ analysis.confidence > 80

\* The guard of the automatic counter trigger
AutoCounterFires(should, analysis) ==
  should /\ analysis.confidence > 80 /\ analysis.intent = "counter_offer"

\* The status the intent switch chooses
NewStatusFor(analysis) ==
  CASE analysis.intent = "acceptance" -> "accepted"
    [] analysis.intent = "rejection" -> "rejected"
    [] analysis.intent = "counter_offer" -> "counter_negotiating"
    [] analysis.intent = "request_info" -> "awaiting_response"
    [] OTHER -> "awaiting_response"

\* The message_type analyze-response writes on the stored message
MessageTypeFor(analysis) ==
  IF analysis.intent \in {"acceptance", "rejection", "counter_offer"}
  THEN analysis.intent ELSE "response_received"

\* Opt-out detection of the webhook: the generative result when there is
\* one, the keyword set otherwise
OptOutResults == [available : {TRUE}, isOptOut : BOOLEAN, confidence : {70, 90}]

\* A variant of hasOptOut that accepts a confidence of exactly 0.7
hasOptOutAtThreshold(optOutDetection, body) ==
  IF optOutDetection.available
  THEN optOutDetection.isOptOut /\ optOutDetection.confidence >= 70
  ELSE "stop" \in body.kw

\* hasOptOut as the webhook computes it
hasOptOut(optOutDetection, body) ==
  IF optOutDetection.available
  THEN optOutDetection.isOptOut /\ optOutDetection.confidence > 70
  ELSE "stop" \in body.kw

\* parseDebtWithAI: the generative result, or the regex fallback
AIDebtInfos ==
  [amount : DebtAmounts, isDebtCollection : BOOLEAN,
   successfullyParsed : BOOLEAN, called : {TRUE}]

RegexDebtInfo(body) ==
  [amount |-> IF body.dollars # Null THEN body.dollars ELSE 0,
   isDebtCollection |-> body.dollars # Null,
   successfullyParsed |-> FALSE,
   called |-> TRUE]

parseDebtWithAI(body) == AIDebtInfos \cup {RegexDebtInfo(body)}

\* customTerms of a generated email: the terms a strategy does not set are
\* Null; monthlyPayment is in cents, settlementPercentage in hundredths
NoTerms ==
  [extensionDays |-> Null, installmentMonths |-> Null, monthlyPayment |-> Null,
   settlementPercentage |-> Null]

\* A variant of generateFallbackEmail whose installment band includes 2000
generateFallbackEmailUpTo2000(record) ==
  IF record.amount < 500
  THEN [strategy |-> "extension", projectedSavings |-> 0, confidenceLevel |-> 70,
        customTerms |-> [NoTerms EXCEPT !.extensionDays = 30]]
  ELSE IF record.amount >= 500 /\ record.amount <= 2000
  THEN [strategy |-> "installment", projectedSavings |-> record.amount \div 10,
        confidenceLevel |-> 70,
        customTerms |-> [NoTerms EXCEPT
                           !.installmentMonths = 3,
                           !.monthlyPayment = (2 * 100 * record.amount + 3) \div 6]]
  ELSE [strategy |-> "settlement", projectedSavings |-> (record.amount * 4) \div 10,
        confidenceLevel |-> 70,
        customTerms |-> [NoTerms EXCEPT !.settlementPercentage = 60]]

\* Rule-based strategy of the negotiate function.  Savings are whole
\* dollars: exact for the amounts drawn in this module, which are multiples
\* of ten dollars.
generateFallbackEmail(record) ==
  IF record.amount < 500
  THEN [strategy |-> "extension", projectedSavings |-> 0, confidenceLevel |-> 70,
        customTerms |-> [NoTerms EXCEPT !.extensionDays = 30]]
  ELSE IF record.amount >= 500 /\ record.amount < 2000
  THEN [strategy |-> "installment", projectedSavings |-> record.amount \div 10,
        confidenceLevel |-> 70,
        customTerms |-> [NoTerms EXCEPT
                           !.installmentMonths = 3,
                           !.monthlyPayment = (2 * 100 * record.amount + 3) \div 6]]
  ELSE [strategy |-> "settlement", projectedSavings |-> (record.amount * 4) \div 10,
        confidenceLevel |-> 70,
        customTerms |-> [NoTerms EXCEPT !.settlementPercentage = 60]]

AIEmailResults ==
  [strategy : {"settlement"}, projectedSavings : {400}, confidenceLevel : {90},
   customTerms : {NoTerms}]

generateNegotiationEmail(record) == AIEmailResults \cup {generateFallbackEmail(record)}

\* checkForExistingNegotiation: the most recently written debt in flight
\* for this sender and recipient, or 0
checkForExistingNegotiation ==
  LET matching ==
        SelectSeq(recent, LAMBDA id :
          debts[id].status \in InFlightStatuses /\ debts[id].metadata.route)
  IN IF Len(matching) > 0 THEN Head(matching) ELSE 0

\* processNegotiation: the one update of the debt row
processNegotiation(record, emailResult) ==
  UpdateDebt(debts, record.id,
    [negotiated_plan |-> TRUE,
     projected_savings |-> emailResult.projectedSavings,
     status |-> "negotiating",
     metadata |-> [record.metadata EXCEPT !.aiEmail = emailResult.strategy]])

\* ------------------------------------------------ webhook: POST /postmark
PendingInserts ==
  Cardinality({p \in Procs : pc[p] \in {"optout_insert", "debt_insert"}})

\* A request is accepted while the request budget lasts; it may overlap a
\* request in flight while the overlap budget lasts
CanStart(p) ==
  /\ Idle(p)
  /\ requests > 0
  /\ Quiescent \/ overlaps > 0

Accept ==
  /\ requests' = requests - 1
  /\ overlaps' = IF Quiescent THEN overlaps ELSE overlaps - 1
  /\ call' = call

StoredAsReply(id, mid) ==
  \E r \in DOMAIN messages :
    r.debt_id = id /\ r.message_id = mid /\ r.message_type # "initial_debt"

\* The email answers a negotiation in flight
PostReply(p) ==
  /\ CanStart(p)
  /\ checkForExistingNegotiation # 0
  /\ \E mid \in MsgIds, body \in Bodies :
       Goto(p, "hnr_insert",
            [NoLocals EXCEPT !.kind = "webhook", !.mid = mid, !.body = body,
                             !.redelivery = StoredAsReply(checkForExistingNegotiation, mid),
                             !.debt = debts[checkForExistingNegotiation]])
  /\ Accept
  /\ UNCHANGED <<debts, recent, messages, outbox>>

\* No negotiation in flight and the email is judged an opt-out
PostOptOut(p) ==
  /\ CanStart(p)
  /\ checkForExistingNegotiation = 0
  /\ Len(debts) + PendingInserts < MaxDebts
  /\ \E mid \in MsgIds, body \in Bodies,
        det \in OptOutResults \cup {NoOptOutResult} :
       /\ hasOptOut(det, body)
       /\ Goto(p, "optout_insert",
               [NoLocals EXCEPT !.kind = "webhook", !.mid = mid,
                                !.body = body, !.optOutDetection = det,
                                !.hasOptOut = TRUE])
  /\ Accept
  /\ UNCHANGED <<debts, recent, messages, outbox>>

\* No negotiation in flight, no opt-out, and the debt could not be parsed:
\* answered 400 with nothing stored
PostUnparsed(p) ==
  /\ CanStart(p)
  /\ checkForExistingNegotiation = 0
  /\ \E body \in Bodies, det \in OptOutResults \cup {NoOptOutResult} :
       /\ ~hasOptOut(det, body)
       /\ \E debtInfo \in parseDebtWithAI(body) : ~debtInfo.successfullyParsed
  /\ Accept
  /\ UNCHANGED <<debts, recent, messages, outbox, pc, loc>>

\* No negotiation in flight, no opt-out, and the generative service is not
\* available (no key, or the call throws): the catch branch of
\* parseDebtWithAI returns what the amount pattern finds in the body
PostFallback(p) ==
  /\ CanStart(p)
  /\ checkForExistingNegotiation = 0
  /\ \E mid \in MsgIds, body \in Bodies :
       /\ ~hasOptOut(NoOptOutResult, body)
       /\ Goto(p, "parse_fallback",
               [NoLocals EXCEPT !.kind = "webhook", !.mid = mid,
                                !.debtInfo = RegexDebtInfo(body)])
  /\ Accept
  /\ UNCHANGED <<debts, recent, messages, outbox>>

\* if (!debtInfo || !debtInfo.successfullyParsed): answered 400, nothing
\* stored
FallbackUnparsed(p) ==
  /\ pc[p] = "parse_fallback"
  /\ ~loc[p].debtInfo.successfullyParsed
  /\ Finish(p)
  /\ UNCHANGED <<debts, recent, messages, outbox, requests, overlaps, call>>

\* No negotiation in flight, no opt-out, debt parsed
PostNewDebt(p) ==
  /\ CanStart(p)
  /\ checkForExistingNegotiation = 0
  /\ Len(debts) + PendingInserts < MaxDebts
  /\ \E mid \in MsgIds, body \in Bodies,
        det \in OptOutResults \cup {NoOptOutResult} :
       /\ ~hasOptOut(det, body)
       /\ \E debtInfo \in parseDebtWithAI(body) :
            /\ debtInfo.successfullyParsed
            /\ Goto(p, "debt_insert",
                    [NoLocals EXCEPT !.kind = "webhook", !.mid = mid,
                                     !.debtInfo = debtInfo])
  /\ Accept
  /\ UNCHANGED <<debts, recent, messages, outbox>>

\* insert into debts of the opt-out branch
OptOutInsert(p) ==
  /\ pc[p] = "optout_insert"
  /\ LET id == Len(debts) + 1
     IN /\ debts' = Append(debts,
                      [NoDebt EXCEPT !.id = id, !.status = "opted_out",
                                     !.amount = 0])
        /\ recent' = <<id>> \o recent
  /\ Finish(p)
  /\ UNCHANGED <<messages, outbox, requests, overlaps, call>>

\* insert into debts of a parsed debt
DebtInsert(p) ==
  /\ pc[p] = "debt_insert"
  /\ LET id == Len(debts) + 1
         inserted ==
           [NoDebt EXCEPT !.id = id, !.status = "received",
                          !.amount = loc[p].debtInfo.amount,
                          !.conversation_count = 1,
                          !.negotiation_round = 1,
                          !.metadata = [NoMetadata EXCEPT !.route = TRUE]]
     IN /\ debts' = Append(debts, inserted)
        /\ recent' = <<id>> \o recent
        /\ Goto(p, "initial_insert", [loc[p] EXCEPT !.debt = inserted])
  /\ UNCHANGED <<messages, outbox, requests, overlaps, call>>

\* the initial debt email becomes the first conversation message; the
\* negotiate function is triggered for a legitimate debt
InitialMessageInsert(p) ==
  /\ pc[p] = "initial_insert"
  /\ messages' = InsertMessage(messages,
       [debt_id |-> loc[p].debt.id, message_id |-> loc[p].mid,
        message_type |-> "initial_debt", direction |-> "inbound"])
  /\ IF loc[p].debtInfo.amount > 0 /\ loc[p].debtInfo.isDebtCollection
     THEN Goto(p, "trigger_negotiate", loc[p])
     ELSE Finish(p)
  /\ UNCHANGED <<debts, recent, outbox, requests, overlaps, call>>

\* negotiate called by the webhook with the inserted record
TriggerNegotiate(p) ==
  /\ pc[p] = "trigger_negotiate"
  /\ \E emailResult \in generateNegotiationEmail(loc[p].debt) :
       debts' = processNegotiation(loc[p].debt, emailResult)
  /\ Finish(p)
  /\ UNCHANGED <<recent, messages, outbox, requests, overlaps, call>>

\* ---------------------------------- webhook: handleNegotiationResponse
\* the reply is recorded in the conversation
HnrInsert(p) ==
  /\ pc[p] = "hnr_insert"
  /\ messages' = InsertMessage(messages,
       [debt_id |-> loc[p].debt.id, message_id |-> loc[p].mid,
        message_type |-> "response_received", direction |-> "inbound"])
  /\ Goto(p, "hnr_update", loc[p])
  /\ UNCHANGED <<debts, recent, outbox, requests, overlaps, call>>

\* conversation tracking, from the debt as checkForExistingNegotiation read it
HnrUpdate(p) ==
  /\ pc[p] = "hnr_update"
  /\ debts' = UpdateDebt(debts, loc[p].debt.id,
       [conversation_count |-> loc[p].debt.conversation_count + 1,
        status |-> "counter_negotiating"])
  /\ recent' = Touch(recent, loc[p].debt.id)
  /\ Goto(p, "hnr_analyze", loc[p])
  /\ UNCHANGED <<messages, outbox, requests, overlaps, call>>

\* the call of analyze-response failed: the reply is only logged
HnrFallback(p) ==
  /\ pc[p] = "hnr_analyze"
  /\ debts' = UpdateDebt(debts, loc[p].debt.id, [status |-> "awaiting_response"])
  /\ Finish(p)
  /\ UNCHANGED <<recent, messages, outbox, requests, overlaps, call>>

\* ------------------------------------------------------ analyze-response
\* select * from debts where id = debtId
AnalyzeRead(p) ==
  /\ pc[p] = "hnr_analyze"
  /\ Goto(p, "an_analyze", [loc[p] EXCEPT !.debt = debts[loc[p].debt.id]])
  /\ UNCHANGED <<debts, recent, messages, outbox, requests, overlaps, call>>

\* the classification, the update of the stored message(s) carrying the
\* message id, and the intent switch
AnalyzeStore(p) ==
  /\ pc[p] = "an_analyze"
  /\ \E analysis \in analyzeEmailResponse(loc[p].body) :
       LET debt == loc[p].debt
           round == IF debt.negotiation_round = 0 THEN 1 ELSE debt.negotiation_round
       IN /\ messages' = UpdateMessages(messages, loc[p].mid, debt.id,
                                         MessageTypeFor(analysis))
          /\ Goto(p, "an_update",
                  [loc[p] EXCEPT
                     !.body = NoBody,
                     !.analysis = analysis,
                     !.newStatus = NewStatusFor(analysis),
                     !.newNegotiationRound =
                        IF analysis.intent = "counter_offer" THEN round + 1 ELSE round,
                     !.shouldAutoRespond =
                        analysis.intent = "counter_offer" /\ shouldAutoRespond(analysis)])
  /\ UNCHANGED <<debts, recent, outbox, requests, overlaps, call>>

\* updateData as written to the debt row
updateData(debt, analysis, newStatus, newNegotiationRound) ==
  LET financialOutcome == calculateFinancialOutcome(debt, analysis)
      accepted == analysis.intent = "acceptance"
      base ==
        [status |-> IF accepted THEN "settled" ELSE newStatus,
         negotiation_round |-> newNegotiationRound,
         conversation_count |-> debt.conversation_count + 1,
         metadata |->
           [debt.metadata EXCEPT
              !.lastResponse = analysis.intent,
              !.actualSavings =
                 IF accepted THEN financialOutcome.actualSavings ELSE @]]
  IN IF accepted
     THEN [f \in DOMAIN base \cup {"actual_savings"} |->
             IF f = "actual_savings" THEN financialOutcome.actualSavings ELSE base[f]]
     ELSE base

\* update debts set updateData; the automatic counter is decided
AnalyzeUpdate(p) ==
  /\ pc[p] = "an_update"
  /\ debts' = UpdateDebt(debts, loc[p].debt.id,
       updateData(loc[p].debt, loc[p].analysis, loc[p].newStatus,
                  loc[p].newNegotiationRound))
  /\ recent' = Touch(recent, loc[p].debt.id)
  /\ IF AutoCounterFires(loc[p].shouldAutoRespond, loc[p].analysis)
     THEN Goto(p, "an_auto", loc[p])
     ELSE Finish(p)
  /\ UNCHANGED <<messages, outbox, requests, overlaps, call>>

\* the update returns an error: it is logged and the handler goes on
AnalyzeUpdateFailed(p) ==
  /\ pc[p] = "an_update"
  /\ IF AutoCounterFires(loc[p].shouldAutoRespond, loc[p].analysis)
     THEN Goto(p, "an_auto", loc[p])
     ELSE Finish(p)
  /\ UNCHANGED <<debts, recent, messages, outbox, requests, overlaps, call>>

\* negotiate called with the record analyze-response read
AutoCounter(p) ==
  /\ pc[p] = "an_auto"
  /\ LET record ==
           [loc[p].debt EXCEPT
              !.status = loc[p].newStatus,
              !.conversation_count = loc[p].debt.conversation_count + 1,
              !.negotiation_round = loc[p].newNegotiationRound]
     IN \E emailResult \in generateNegotiationEmail(record) :
          debts' = processNegotiation(record, emailResult)
  /\ Finish(p)
  /\ UNCHANGED <<recent, messages, outbox, requests, overlaps, call>>

\* ------------------------------------------- negotiate called by the user
NegotiateRead(p) ==
  /\ CanStart(p)
  /\ \E id \in DebtIds :
       Goto(p, "neg_update", [NoLocals EXCEPT !.kind = "negotiate", !.debt = debts[id]])
  /\ Accept
  /\ UNCHANGED <<debts, recent, messages, outbox>>

NegotiateUpdate(p) ==
  /\ pc[p] = "neg_update"
  /\ \E emailResult \in generateNegotiationEmail(loc[p].debt) :
       debts' = processNegotiation(loc[p].debt, emailResult)
  /\ Finish(p)
  /\ UNCHANGED <<recent, messages, outbox, requests, overlaps, call>>

\* ------------------------------------------------------------ send-email
HasPlan(debt) == debt.negotiated_plan /\ debt.metadata.aiEmail # NoVal

\* no negotiated plan: answered 400
SendRejected(p) ==
  /\ CanStart(p)
  /\ \E id \in DebtIds : ~HasPlan(debts[id])
  /\ Accept
  /\ UNCHANGED <<debts, recent, messages, outbox, pc, loc>>

SendRead(p) ==
  /\ CanStart(p)
  /\ \E id \in DebtIds :
       /\ HasPlan(debts[id])
       /\ Goto(p, "send_postmark", [NoLocals EXCEPT !.kind = "send", !.debt = debts[id]])
  /\ Accept
  /\ UNCHANGED <<debts, recent, messages, outbox>>

\* sendEmailViaPostmark delivers the letter
SendPostmark(p) ==
  /\ pc[p] = "send_postmark"
  /\ outbox' = outbox (+) SetToBag({loc[p].debt.id})
  /\ Goto(p, "send_current", loc[p])
  /\ UNCHANGED <<debts, recent, messages, requests, overlaps, call>>

\* sendEmailViaPostmark throws: email_send_failed is logged
SendFailed(p) ==
  /\ pc[p] = "send_postmark"
  /\ Finish(p)
  /\ UNCHANGED <<debts, recent, messages, outbox, requests, overlaps, call>>

\* select conversation_count, negotiation_round
SendReadCurrent(p) ==
  /\ pc[p] = "send_current"
  /\ Goto(p, "send_update",
          [loc[p] EXCEPT !.currentCount = debts[loc[p].debt.id].conversation_count])
  /\ UNCHANGED <<debts, recent, messages, outbox, requests, overlaps, call>>

SendUpdate(p) ==
  /\ pc[p] = "send_update"
  /\ debts' = UpdateDebt(debts, loc[p].debt.id,
       [status |-> "sent",
        conversation_count |-> loc[p].currentCount + 1,
        prospected_savings |-> loc[p].debt.projected_savings,
        metadata |->
          [loc[p].debt.metadata EXCEPT
             !.emailSent = TRUE,
             !.prospectedSavings = loc[p].debt.projected_savings]])
  /\ recent' = Touch(recent, loc[p].debt.id)
  /\ Goto(p, "send_insert", loc[p])
  /\ UNCHANGED <<messages, outbox, requests, overlaps, call>>

SendInsert(p) ==
  /\ pc[p] = "send_insert"
  /\ messages' = InsertMessage(messages,
       [debt_id |-> loc[p].debt.id, message_id |-> OutboundId,
        message_type |-> "negotiation_sent", direction |-> "outbound"])
  /\ Finish(p)
  /\ UNCHANGED <<debts, recent, outbox, requests, overlaps, call>>

\* ------------------------------------------- dashboard: handleReject
\* The card shows the reject button for a debt at negotiating that has a
\* generated letter; the one update sets the status (the rejected note it
\* adds to the metadata is not read by any function modelled here)
showApproveRejectButtons(debt) ==
  debt.metadata.aiEmail # NoVal /\ debt.status = "negotiating"

handleReject(p) ==
  /\ CanStart(p)
  /\ \E id \in DebtIds :
       /\ showApproveRejectButtons(debts[id])
       /\ debts' = UpdateDebt(debts, id, [status |-> "opted_out"])
  /\ Accept
  /\ UNCHANGED <<recent, messages, outbox, pc, loc>>

\* ------------------------------------------------------------------ next
Next ==
  \E p \in Procs :
    \/ PostReply(p)
    \/ PostOptOut(p)
    \/ PostUnparsed(p)
    \/ PostFallback(p)
    \/ FallbackUnparsed(p)
    \/ PostNewDebt(p)
    \/ OptOutInsert(p)
    \/ DebtInsert(p)
    \/ InitialMessageInsert(p)
    \/ TriggerNegotiate(p)
    \/ HnrInsert(p)
    \/ HnrUpdate(p)
    \/ HnrFallback(p)
    \/ AnalyzeRead(p)
    \/ AnalyzeStore(p)
    \/ AnalyzeUpdate(p)
    \/ AnalyzeUpdateFailed(p)
    \/ AutoCounter(p)
    \/ NegotiateRead(p)
    \/ NegotiateUpdate(p)
    \/ SendRejected(p)
    \/ SendRead(p)
    \/ SendPostmark(p)
    \/ SendFailed(p)
    \/ SendReadCurrent(p)
    \/ SendUpdate(p)
    \/ SendInsert(p)
    \/ handleReject(p)

Spec == Init /\ [][Next]_vars

\* ------------------------------------------- calls of the pure functions
\* No request is served and the store is empty while a pure function runs
StoreIdle ==
  /\ debts = <<>>
  /\ recent = <<>>
  /\ messages = EmptyBag
  /\ outbox = EmptyBag
  /\ pc = [p \in Procs |-> "idle"]
  /\ loc = [p \in Procs |-> NoLocals]
  /\ requests = 0
  /\ overlaps = 0

Call(fn, arg) == [fn |-> fn, arg |-> arg, result |-> NoVal, returned |-> FALSE]

Return(result) ==
  /\ ~call.returned
  /\ call' = [call EXCEPT !.result = result, !.returned = TRUE]
  /\ UNCHANGED <<debts, recent, messages, outbox, pc, loc, requests, overlaps>>

\* ------------------------------------------- email variables (templates)
\* A text is a sequence of characters.  HasAt: the text holds s at index i
HasAt(text, i, s) ==
  /\ i >= 1
  /\ i + Len(s) - 1 <= Len(text)
  /\ SubSeq(text, i, i + Len(s) - 1) = s

\* \s* : the index after the white space that starts at i
RECURSIVE SkipSpaces(_, _)
SkipSpaces(text, i) ==
  IF i <= Len(text) /\ text[i] = " " THEN SkipSpaces(text, i + 1) ELSE i

RECURSIVE TrimLeft(_)
TrimLeft(text) ==
  IF text # <<>> /\ Head(text) = " " THEN TrimLeft(Tail(text)) ELSE text

RECURSIVE TrimRight(_)
TrimRight(text) ==
  IF text # <<>> /\ text[Len(text)] = " "
  THEN TrimRight(SubSeq(text, 1, Len(text) - 1)) ELSE text

\* A trim that leaves the blanks at the end
TrimAtStartOnly(text) == TrimLeft(text)

Trim(text) == TrimRight(TrimLeft(text))

\* The index of the first "}" at or after i, or 0
RECURSIVE FirstClose(_, _)
FirstClose(text, i) ==
  IF i > Len(text) THEN 0
  ELSE IF text[i] = "}" THEN i
  ELSE FirstClose(text, i + 1)

\* /\{\{\s*([^}]+)\s*\}\}/ tried at index i: the index of the last
\* character of the match, or 0.  The name is at least one character other
\* than "}" and is followed at once by "}}".
NameMatchEnd(text, i) ==
  IF HasAt(text, i, <<"{", "{">>)
  THEN LET k == FirstClose(text, i + 2)
       IN IF k > i + 2 /\ HasAt(text, k, <<"}", "}">>) THEN k + 1 ELSE 0
  ELSE 0

RECURSIVE ExtractFrom(_, _, _)
ExtractFrom(text, i, matches) ==
  IF i > Len(text) THEN matches
  ELSE LET end == NameMatchEnd(text, i)
       IN IF end = 0 THEN ExtractFrom(text, i + 1, matches)
          ELSE LET variableName == Trim(SubSeq(text, i + 2, end - 2))
               IN ExtractFrom(text, end + 1,
                    IF \E n \in 1..Len(matches) : matches[n] = variableName
                    THEN matches ELSE Append(matches, variableName))

\* extractVariables: the unique names, in order of first appearance
extractVariables(text) == ExtractFrom(text, 1, <<>>)

\* new RegExp("\\{\\{\\s*" + escapedKey + "\\s*\\}\\}") tried at index i: the
\* index of the last character of the match, or 0
KeyMatchEnd(text, i, key) ==
  IF HasAt(text, i, <<"{", "{">>)
  THEN LET j == SkipSpaces(text, i + 2)
       IN IF HasAt(text, j, key)
          THEN LET k == SkipSpaces(text, j + Len(key))
               IN IF HasAt(text, k, <<"}", "}">>) THEN k + 1 ELSE 0
          ELSE 0
  ELSE 0

\* String.prototype.replace with a string as replacement: "$$" inserts "$"
\* and "$&" inserts the matched text; the pattern has no groups, so every
\* other character stands for itself
RECURSIVE ExpandReplacement(_, _)
ExpandReplacement(value, matched) ==
  IF value = <<>> THEN <<>>
  ELSE IF HasAt(value, 1, <<"$", "$">>)
  THEN <<"$">> \o ExpandReplacement(SubSeq(value, 3, Len(value)), matched)
  ELSE IF HasAt(value, 1, <<"$", "&">>)
  THEN matched \o ExpandReplacement(SubSeq(value, 3, Len(value)), matched)
  ELSE <<Head(value)>> \o ExpandReplacement(Tail(value), matched)

\* result.replace(regex, value) with the g flag: the matches of the text as
\* it is, from left to right; what is inserted is not scanned again
RECURSIVE ReplaceAllFrom(_, _, _, _)
ReplaceAllFrom(text, i, key, value) ==
  IF i > Len(text) THEN <<>>
  ELSE LET end == KeyMatchEnd(text, i, key)
       IN IF end = 0
          THEN <<text[i]>> \o ReplaceAllFrom(text, i + 1, key, value)
          ELSE ExpandReplacement(value, SubSeq(text, i, end))
                 \o ReplaceAllFrom(text, end + 1, key, value)

\* replaceVariables: variables is Object.entries(variables), the keys in
\* insertion order; each entry is applied to the result of the one before
RECURSIVE replaceVariables(_, _)
replaceVariables(text, variables) ==
  IF variables = <<>> THEN text
  ELSE replaceVariables(
         ReplaceAllFrom(text, 1, Head(variables).key, Head(variables).value),
         Tail(variables))

\* Texts are made of at most MaxSegments pieces; maps have at most MaxKeys
\* of the names a and b.  The word constructor is written as one element.
MaxSegments == 2
MaxKeys == 2

Segments ==
  {<<"x">>,
   <<"{", "{", "a", "}", "}">>,
   <<"{", "{", " ", "a", " ", "}", "}">>,
   <<"{", "{", "b", "}", "}">>,
   <<"{", "{", "c", "}", "}">>,
   <<"{", "{", "A", "}", "}">>,
   <<"{", "{", "constructor", "}", "}">>,
   <<"{", "{">>,
   <<"}", "}">>}

RECURSIVE Flatten(_)
Flatten(pieces) ==
  IF pieces = <<>> THEN <<>> ELSE Head(pieces) \o Flatten(Tail(pieces))

Texts == {Flatten(pieces) : pieces \in UNION {[1..n -> Segments] : n \in 0..MaxSegments}}

VariableNames == {<<"a">>, <<"b">>}

VariableValues ==
  {<<>>, <<"x">>, <<"{", "{", "a", "}", "}">>, <<"{", "{", "b", "}", "}">>,
   <<"$", "&">>, <<"$", "$">>}

VariableMaps ==
  {m \in UNION {[1..n -> [key : VariableNames, value : VariableValues]] : n \in 0..MaxKeys} :
     \A i, j \in 1..Len(m) : m[i].key = m[j].key => i = j}

Keys(variables) == {variables[n].key : n \in 1..Len(variables)}

Names(matches) == {matches[n] : n \in 1..Len(matches)}

InitTemplate ==
  /\ StoreIdle
  /\ \E text \in Texts, variables \in VariableMaps :
       call = Call("replaceVariables", [text |-> text, variables |-> variables])

CallReplaceVariables ==
  /\ call.fn = "replaceVariables"
  /\ Return(replaceVariables(call.arg.text, call.arg.variables))

\* extractVariables applied to the text replaceVariables returned
CallExtractVariables ==
  /\ call.fn = "replaceVariables" /\ call.returned
  /\ call' = [fn |-> "extractVariables",
              arg |-> [text |-> call.result, variables |-> call.arg.variables,
                       template |-> call.arg.text],
              result |-> extractVariables(call.result),
              returned |-> TRUE]
  /\ UNCHANGED <<debts, recent, messages, outbox, pc, loc, requests, overlaps>>

NextTemplate == CallReplaceVariables \/ CallExtractVariables

SpecTemplate == InitTemplate /\ [][NextTemplate]_vars

\* extractVariables over texts of at most MaxExtractSegments pieces
MaxExtractSegments == 3

ExtractTexts ==
  {Flatten(pieces) :
     pieces \in UNION {[1..n -> Segments] : n \in 0..MaxExtractSegments}}

InitExtract ==
  /\ StoreIdle
  /\ \E text \in ExtractTexts : call = Call("extractVariables", [text |-> text])

CallExtract ==
  /\ call.fn = "extractVariables"
  /\ Return(extractVariables(call.arg.text))

NextExtract == CallExtract

SpecExtract == InitExtract /\ [][NextExtract]_vars

\* ------------------------------------------- updateVariablesForTextChange
\* Members of Object.prototype: `name in object` is true of them for every
\* object literal, whether or not the object has the name as its own key
ObjectPrototypeNames ==
  {<<"constructor">>, <<"toString">>, <<"valueOf">>, <<"hasOwnProperty">>}

\* variable in updatedVariables
In(variable, object) ==
  variable \in Keys(object) \/ variable \in ObjectPrototypeNames

\* newVariables.forEach: a name that is not `in` the object is added with ""
RECURSIVE AddNewVariables(_, _)
AddNewVariables(newVariables, updatedVariables) ==
  IF newVariables = <<>> THEN updatedVariables
  ELSE AddNewVariables(
         Tail(newVariables),
         IF In(Head(newVariables), updatedVariables) THEN updatedVariables
         ELSE Append(updatedVariables,
                     [key |-> Head(newVariables), value |-> <<>>]))

\* Object.keys(updatedVariables).forEach: a key that is not among the new
\* names is deleted
RemoveOldVariables(updatedVariables, newVariables) ==
  SelectSeq(updatedVariables, LAMBDA entry : entry.key \in Names(newVariables))

\* A loop that walks the live key list by index and steps over the key that
\* follows a deleted one
RECURSIVE RemoveOldVariablesSkipping(_, _)
RemoveOldVariablesSkipping(updatedVariables, newVariables) ==
  IF updatedVariables = <<>> THEN <<>>
  ELSE IF Head(updatedVariables).key \in Names(newVariables)
  THEN <<Head(updatedVariables)>>
         \o RemoveOldVariablesSkipping(Tail(updatedVariables), newVariables)
  ELSE IF Len(updatedVariables) = 1 THEN <<>>
  ELSE <<updatedVariables[2]>>
         \o RemoveOldVariablesSkipping(
              SubSeq(updatedVariables, 3, Len(updatedVariables)), newVariables)

updateVariablesForTextChangeSkipping(currentVariables, newText, otherText) ==
  LET allText == newText \o <<" ">> \o otherText
      newVariables == extractVariables(allText)
  IN RemoveOldVariablesSkipping(
       AddNewVariables(newVariables, currentVariables), newVariables)

updateVariablesForTextChange(currentVariables, newText, otherText) ==
  LET allText == newText \o <<" ">> \o otherText
      newVariables == extractVariables(allText)
  IN RemoveOldVariables(
       AddNewVariables(newVariables, currentVariables), newVariables)

\* The maps the editor holds: the user's values are plain text
PlainValues == {<<>>, <<"x">>}

EditorMaps ==
  {m \in VariableMaps : \A n \in 1..Len(m) : m[n].value \in PlainValues}

InitTextChange ==
  /\ StoreIdle
  /\ \E currentVariables \in EditorMaps, newText \in Texts, otherText \in Texts :
       call = Call("updateVariablesForTextChange",
                   [currentVariables |-> currentVariables, newText |-> newText,
                    otherText |-> otherText, again |-> FALSE,
                    before |-> <<>>])

CallTextChange ==
  /\ call.fn = "updateVariablesForTextChange"
  /\ Return(updateVariablesForTextChange(
              call.arg.currentVariables, call.arg.newText, call.arg.otherText))

\* The same texts again, on the map the first call returned
CallTextChangeAgain ==
  /\ call.fn = "updateVariablesForTextChange"
  /\ call.returned /\ ~call.arg.again
  /\ call' = [fn |-> "updateVariablesForTextChange",
              arg |-> [call.arg EXCEPT !.currentVariables = call.result,
                                       !.again = TRUE,
                                       !.before = call.arg.currentVariables],
              result |-> updateVariablesForTextChange(
                           call.result, call.arg.newText, call.arg.otherText),
              returned |-> TRUE]
  /\ UNCHANGED <<debts, recent, messages, outbox, pc, loc, requests, overlaps>>

NextTextChange == CallTextChange \/ CallTextChangeAgain

SpecTextChange == InitTextChange /\ [][NextTextChange]_vars

\* ------------------------------------------- send-email's replaceVariables
\* What String(f) gives for a built-in function f
NativeFunctionText(name) ==
  <<"function ", IF name = <<"constructor">> THEN "Object" ELSE name[1],
    "() { [native code] }">>

\* variables[trimmedName] || "": the own value, else the inherited member,
\* else undefined; an empty value is falsy
PropertyOrEmpty(variables, trimmedName) ==
  IF trimmedName \in Keys(variables)
  THEN LET n == CHOOSE n \in 1..Len(variables) : variables[n].key = trimmedName
       IN variables[n].value
  ELSE IF trimmedName \in ObjectPrototypeNames
  THEN NativeFunctionText(trimmedName)
  ELSE <<>>

\* text.replace(/\{\{([^}]+)\}\}/g, callback): each match, from left to
\* right, gives way to what the callback returns, taken as it is
RECURSIVE DeliveryReplaceFrom(_, _, _)
DeliveryReplaceFrom(text, i, variables) ==
  IF i > Len(text) THEN <<>>
  ELSE LET end == NameMatchEnd(text, i)
       IN IF end = 0
          THEN <<text[i]>> \o DeliveryReplaceFrom(text, i + 1, variables)
          ELSE PropertyOrEmpty(variables, Trim(SubSeq(text, i + 2, end - 2)))
                 \o DeliveryReplaceFrom(text, end + 1, variables)

sendEmailReplaceVariables(text, variables) ==
  DeliveryReplaceFrom(text, 1, variables)

\* The preview of a template, then its delivery with the same stored map
InitDelivery ==
  /\ StoreIdle
  /\ \E text \in Texts, variables \in VariableMaps :
       call = Call("replaceVariables", [text |-> text, variables |-> variables])

CallPreview ==
  /\ call.fn = "replaceVariables"
  /\ Return(replaceVariables(call.arg.text, call.arg.variables))

CallDelivery ==
  /\ call.fn = "replaceVariables" /\ call.returned
  /\ call' = [fn |-> "sendEmailReplaceVariables",
              arg |-> [text |-> call.arg.text, variables |-> call.arg.variables,
                       preview |-> call.result],
              result |-> sendEmailReplaceVariables(call.arg.text, call.arg.variables),
              returned |-> TRUE]
  /\ UNCHANGED <<debts, recent, messages, outbox, pc, loc, requests, overlaps>>

NextDelivery == CallPreview \/ CallDelivery

SpecDelivery == InitDelivery /\ [][NextDelivery]_vars

\* generateFallbackEmail over records of every amount that is a multiple of
\* ten dollars up to MaxFallbackAmount, at two different statuses
MaxFallbackAmount == 2500

FallbackAmounts == {10 * n : n \in 0..(MaxFallbackAmount \div 10)}

InitFallbackEmail ==
  /\ StoreIdle
  /\ \E amount \in FallbackAmounts, status \in {"received", "counter_negotiating"} :
       call = Call("generateFallbackEmail",
                   [NoDebt EXCEPT !.id = 1, !.amount = amount, !.status = status])

CallFallbackEmail ==
  /\ call.fn = "generateFallbackEmail"
  /\ Return(generateFallbackEmail(call.arg))

NextFallbackEmail == CallFallbackEmail

SpecFallbackEmail == InitFallbackEmail /\ [][NextFallbackEmail]_vars

\* calculateFinancialOutcome over debts and accepted offers: the original
\* amount, the prospected savings stored at send time, the flat amount and
\* the payment plan, each optional number absent, 0 or positive
CalcOriginals == {0, 4500, 5000}

CalcProposed == {Null, 0, 3200}

CalcProspected == {Null, 0, 500, 6000}

CalcPaymentTerms ==
  [present : {TRUE}, monthlyAmount : {Null, 250}, numberOfPayments : {Null, 18},
   totalAmount : {Null, 0, 4500}] \cup {NoPaymentTerms}

InitFinancialOutcome ==
  /\ StoreIdle
  /\ \E originalAmount \in CalcOriginals, proposedAmount \in CalcProposed,
        prospectedSavings \in CalcProspected, terms \in CalcPaymentTerms :
       call = Call("calculateFinancialOutcome",
                   [debt |-> [NoDebt EXCEPT !.amount = originalAmount,
                                            !.metadata.prospectedSavings = prospectedSavings],
                    analysis |-> [NoAnalysis EXCEPT !.intent = "acceptance",
                                                    !.proposedAmount = proposedAmount,
                                                    !.paymentTerms = terms]])

CallFinancialOutcome ==
  /\ call.fn = "calculateFinancialOutcome"
  /\ Return(calculateFinancialOutcome(call.arg.debt, call.arg.analysis))

NextFinancialOutcome == CallFinancialOutcome

SpecFinancialOutcome == InitFinancialOutcome /\ [][NextFinancialOutcome]_vars

TypeOK ==
  /\ \A id \in DebtIds : debts[id].status \in Statuses
  /\ requests \in 0..Max(MaxRequests, MaxRaceRequests)
  /\ overlaps \in 0..MaxOverlaps

\* ----------------------------------------------------------------- claims
Stepped(p) == pc'[p] # pc[p]

\* C1: while the webhook processes a reply whose message id is already
\* stored as a reply of the debt, no step of that request changes the
\* debt's conversation_count, negotiation_round or status, and the number
\* of stored messages carrying the message id stays what it was.
C1_RedeliveryChangesNothing ==
  [][\A p \in Procs :
       (loc[p].redelivery /\ Stepped(p)) =>
         LET id == loc[p].debt.id
         IN /\ debts'[id].conversation_count = debts[id].conversation_count
            /\ debts'[id].negotiation_round = debts[id].negotiation_round
            /\ debts'[id].status = debts[id].status
            /\ MessagesWithId(loc[p].mid)' = MessagesWithId(loc[p].mid)]_vars

\* C2: every reply analysis that classified counter_offer writes a
\* negotiation_round one above the value stored when it writes, so that two
\* such analyses of one debt leave the round 2 higher, however interleaved.
C2_EveryCounterOfferRaisesRound ==
  [][\A p \in Procs :
       (/\ pc[p] = "an_update" /\ Stepped(p)
        /\ loc[p].analysis.intent = "counter_offer") =>
         debts'[loc[p].debt.id].negotiation_round =
           debts[loc[p].debt.id].negotiation_round + 1]_vars

\* C3: once all requests have completed, every debt's conversation_count
\* equals the number of stored messages of the debt.
C3_CountIsMessages ==
  Quiescent =>
    \A id \in DebtIds : debts[id].conversation_count = MessagesOf(id)

\* C4: a debt's actual_savings has been written by an acceptance if and
\* only if the debt's status is accepted or settled.
C4_SavingsIffSettled ==
  \A id \in DebtIds :
    (debts[id].actual_savings # Null) <=>
      (debts[id].status \in {"accepted", "settled"})

\* C5: the automatic counter is only ever about to be issued for a
\* classification with intent counter_offer, confidence above 0.8 and no
\* review flag, never for one made by the keyword fallback; and the keyword
\* fallback always answers confidence 0.6 with the review flag set.
C5_AutoCounterGuard ==
  /\ \A p \in Procs :
       pc[p] = "an_auto" =>
         /\ loc[p].analysis.intent = "counter_offer"
         /\ loc[p].analysis.confidence > 80
         /\ ~loc[p].analysis.requiresUserReview
         /\ loc[p].analysis.reasoning # "fallback"
  /\ \A p \in Procs :
       pc[p] = "an_update" /\ loc[p].analysis.reasoning = "fallback" =>
         /\ loc[p].analysis.confidence = 60
         /\ loc[p].analysis.requiresUserReview
         /\ ~loc[p].shouldAutoRespond

C5_AutoCounterIssued == \E p \in Procs : pc[p] = "an_auto"

\* C6: the automatic counter is only ever about to be issued for a
\* classification whose suggested next action is send_counter.
C6_AutoCounterOnlyForSendCounter ==
  \A p \in Procs :
    pc[p] = "an_auto" => loc[p].analysis.suggestedNextAction = "send_counter"

\* C7: when the automatically generated counter completes, the debt's
\* negotiation_round is one above the round the analysis read, the stored
\* status is counter_negotiating and one more email has been delivered to
\* the creditor than before the reply was analyzed.
C7_AutoCounterCompletes ==
  [][\A p \in Procs :
       (pc[p] = "an_auto" /\ Stepped(p)) =>
         LET id == loc[p].debt.id
         IN /\ debts'[id].negotiation_round = loc[p].debt.negotiation_round + 1
            /\ debts'[id].status = "counter_negotiating"
            /\ CopiesIn(id, outbox') > CopiesIn(id, outbox)]_vars

\* C8: writing the analysis of a reply classified counter_offer with
\* confidence at most 0.8 or with the review flag set leaves the debt at
\* requires_manual_review and ends the request without a strategy
\* generation or an email.
C8_LowConfidenceCounterEscalates ==
  [][\A p \in Procs :
       (/\ pc[p] = "an_update" /\ Stepped(p)
        /\ loc[p].analysis.intent = "counter_offer"
        /\ (loc[p].analysis.confidence <= 80 \/ loc[p].analysis.requiresUserReview)) =>
         /\ debts'[loc[p].debt.id].status = "requires_manual_review"
         /\ pc'[p] = "idle"
         /\ outbox' = outbox]_vars

\* C9: writing the analysis of a reply classified acceptance by the keyword
\* fallback, with the review flag set or with confidence at most 0.8 does
\* not set the debt's status to settled and does not write actual_savings.
C9_UnreviewedAcceptanceNeverSettles ==
  [][\A p \in Procs :
       (/\ pc[p] = "an_update" /\ Stepped(p)
        /\ loc[p].analysis.intent = "acceptance"
        /\ \/ loc[p].analysis.reasoning = "fallback"
           \/ loc[p].analysis.requiresUserReview
           \/ loc[p].analysis.confidence <= 80) =>
         LET id == loc[p].debt.id
         IN /\ debts'[id].status # "settled"
            /\ debts'[id].actual_savings = debts[id].actual_savings]_vars

C11_OptOutBeforeClassification ==
  [][\A p \in Procs :
       (/\ loc[p].kind = "webhook" /\ loc[p].debt.id # 0
        /\ hasOptOut(NoOptOutResult, loc[p].body)
        /\ Stepped(p)) =>
         /\ debts'[loc[p].debt.id].status = "opted_out"
         /\ messages' = messages
         /\ pc'[p] = "idle"]_vars

\* C12: no step changes the status of a debt that is at opted_out or
\* delivers an email for it.
C12_OptedOutAbsorbing ==
  [][\A id \in DebtIds :
       debts[id].status = "opted_out" =>
         /\ debts'[id].status = "opted_out"
         /\ CopiesIn(id, outbox') = CopiesIn(id, outbox)]_vars

\* C13: a step that delivers an email for a debt, or that sets a debt's
\* status to sent, acts on a debt whose stored status is approved.
C13_SentOnlyFromApproved ==
  [][\A id \in DebtIds :
       (\/ CopiesIn(id, outbox') > CopiesIn(id, outbox)
        \/ debts'[id].status = "sent" /\ debts[id].status # "sent") =>
         debts[id].status = "approved"]_vars

\* C14: once a send has written a debt's prospected_savings, no step changes
\* the stored value.
C14_ProspectedSavingsFrozen ==
  [][\A id \in DebtIds :
       debts[id].metadata.emailSent =>
         debts'[id].prospected_savings = debts[id].prospected_savings]_vars

\* C15: a step that changes a debt's status to negotiating acts on a debt
\* whose stored status is received.
C15_NegotiatingOnlyFromReceived ==
  [][\A id \in DebtIds :
       (debts'[id].status = "negotiating" /\ debts[id].status # "negotiating") =>
         debts[id].status = "received"]_vars

\* C16: calculateFinancialOutcome takes as accepted amount the flat proposed
\* amount when one is stated (0 included), else the plan total when one is
\* stated, else the original less the stored prospected savings, else the
\* original, and returns actualSavings = max(0, original - accepted); for
\* original 5000 and flat amount 3200 it returns 1800, principal_reduction
\* and percentage "36.00".
C16_AcceptedAmountByPriority ==
  (call.fn = "calculateFinancialOutcome" /\ call.returned) =>
    LET originalAmount == call.arg.debt.amount
        proposedAmount == call.arg.analysis.proposedAmount
        terms == call.arg.analysis.paymentTerms
        prospectedSavings == call.arg.debt.metadata.prospectedSavings
        accepted ==
          IF proposedAmount # Null THEN proposedAmount
          ELSE IF terms.present /\ terms.totalAmount # Null THEN terms.totalAmount
          ELSE IF prospectedSavings # Null THEN originalAmount - prospectedSavings
          ELSE originalAmount
    IN /\ call.result.acceptedAmount = accepted
       /\ call.result.actualSavings = Max(0, originalAmount - accepted)
       /\ (originalAmount = 5000 /\ proposedAmount = 3200) =>
            /\ call.result.actualSavings = 1800
            /\ call.result.financialBenefit.type = "principal_reduction"
            /\ call.result.financialBenefit.percentage = 3600

\* C17: when actualSavings is 0 and the plan states a monthly amount and a
\* payment count, the returned benefit is payment_restructuring with
\* monthly reduction original - monthly, cash flow benefit monthly
\* reduction x payments and a time-value benefit; when actualSavings is 0
\* and the count is missing or there is no plan, no benefit is returned.
C17_PaymentRestructuringBenefit ==
  (/\ call.fn = "calculateFinancialOutcome" /\ call.returned
   /\ call.result.actualSavings = 0) =>
    LET originalAmount == call.arg.debt.amount
        terms == call.arg.analysis.paymentTerms
        benefit == call.result.financialBenefit
    IN IF terms.present /\ terms.monthlyAmount # Null /\ terms.numberOfPayments # Null
       THEN /\ benefit.type = "payment_restructuring"
            /\ benefit.monthlyReduction = originalAmount - terms.monthlyAmount
            /\ benefit.cashFlowRelief.totalCashFlowBenefit =
                 (originalAmount - terms.monthlyAmount) * terms.numberOfPayments
            /\ benefit.timeValueBenefit # NoTimeValue
       ELSE benefit = NoBenefit

\* C18: generateFallbackEmail answers extension with savings 0 below 500,
\* installment with savings a tenth of the amount and 3 monthly payments
\* from 500 up to but not including 2000, settlement with savings four
\* tenths of the amount from 2000 on; never dispute; always with a
\* strategy, a confidence and projected savings; and the same for two
\* records of the same amount.
C18_FallbackStrategyByAmount ==
  (call.fn = "generateFallbackEmail" /\ call.returned) =>
    LET amount == call.arg.amount
        email == call.result
    IN /\ amount < 500 =>
            email.strategy = "extension" /\ email.projectedSavings = 0
       /\ (amount >= 500 /\ amount < 2000) =>
            /\ email.strategy = "installment"
            /\ 10 * email.projectedSavings = amount
            /\ email.customTerms.installmentMonths = 3
       /\ amount >= 2000 =>
            /\ email.strategy = "settlement"
            /\ 10 * email.projectedSavings = 4 * amount
       /\ email.strategy \in {"extension", "installment", "settlement"}
       /\ email.confidenceLevel # Null
       /\ email.projectedSavings # Null
       /\ email = generateFallbackEmail([NoDebt EXCEPT !.amount = amount])

C18_SettlementAtExactly2000 ==
  /\ call.fn = "generateFallbackEmail" /\ call.returned
  /\ call.arg.amount = 2000
  /\ call.result.strategy = "settlement"
  /\ call.result.projectedSavings = 800

\* What replacing every placeholder in one pass gives: each {{ name }} whose
\* name is a key becomes the key's value as it is written, every other
\* character stays
RECURSIVE Substituted(_, _, _)
Substituted(text, i, variables) ==
  IF i > Len(text) THEN <<>>
  ELSE LET hits == {n \in 1..Len(variables) :
                     KeyMatchEnd(text, i, variables[n].key) # 0}
       IN IF hits = {}
          THEN <<text[i]>> \o Substituted(text, i + 1, variables)
          ELSE LET n == CHOOSE n \in hits : TRUE
               IN variables[n].value
                    \o Substituted(text, KeyMatchEnd(text, i, variables[n].key) + 1,
                                   variables)

\* C19: replaceVariables returns the text with every {{ name }} whose name
\* is a key replaced by the key's value and every other placeholder left as
\* it is written.
C19_ReplacesKeysLeavesOthers ==
  (call.fn = "replaceVariables" /\ call.returned) =>
    call.result = Substituted(call.arg.text, 1, call.arg.variables)

\* C20: when the map has a key for every name extractVariables finds in the
\* text, extractVariables finds no key of the map in what replaceVariables
\* returns.
C20_RoundTripLeavesNoKey ==
  (/\ call.fn = "extractVariables" /\ call.returned
   /\ Names(extractVariables(call.arg.template)) \subseteq Keys(call.arg.variables)) =>
    Names(call.result) \cap Keys(call.arg.variables) = {}

\* The entries of a map, and the value a map holds for one of its keys
Entries(variables) == {variables[n] : n \in 1..Len(variables)}

ValueOf(variables, key) ==
  (CHOOSE entry \in Entries(variables) : entry.key = key).value

\* C21: updateVariablesForTextChange returns a map whose keys are exactly the
\* names extracted from newText together with otherText; a name that current
\* already had keeps its value, a name that newly appears maps to the empty
\* string, and a name of current that is in neither text is gone.
C21_KeysAndValuesReconciled ==
  (call.fn = "updateVariablesForTextChange" /\ call.returned /\ ~call.arg.again) =>
    LET current == call.arg.currentVariables
        names == Names(extractVariables(
                         call.arg.newText \o <<" ">> \o call.arg.otherText))
    IN /\ Keys(call.result) = names
       /\ \A entry \in Entries(call.result) :
            entry.value = IF entry.key \in Keys(current)
                          THEN ValueOf(current, entry.key) ELSE <<>>

\* C22: reconciling again with the same texts changes nothing: the map
\* updateVariablesForTextChange returns for the map it returned is that map.
C22_ReconcileFixedPoint ==
  (call.fn = "updateVariablesForTextChange" /\ call.returned /\ call.arg.again) =>
    Entries(call.result) = Entries(call.arg.currentVariables)

\* C22 witness: a second reconciliation of a map whose first reconciliation
\* removed a key, kept a key with its value and added a key
C22_ReconciledTwice ==
  /\ call.fn = "updateVariablesForTextChange" /\ call.returned /\ call.arg.again
  /\ Keys(call.arg.before) \ Keys(call.arg.currentVariables) # {}
  /\ Keys(call.arg.currentVariables) \ Keys(call.arg.before) # {}
  /\ \E entry \in Entries(call.arg.before) :
       entry.value # <<>> /\ entry \in Entries(call.result)

\* C29: the keys updateVariablesForTextChange returns are the names of the
\* one text united with the names of the other: joining the two texts makes
\* no name that is in neither text on its own.
C29_KeysAreUnionOfFieldNames ==
  (call.fn = "updateVariablesForTextChange" /\ call.returned /\ ~call.arg.again) =>
    Keys(call.result) =
      Names(extractVariables(call.arg.newText))
        \cup Names(extractVariables(call.arg.otherText))

\* C27: the letter delivered is the letter previewed: for every template and
\* every stored map, send-email's replaceVariables gives the text the
\* library's replaceVariables gives, placeholders without a stored value
\* included.
C27_DeliveredEqualsPreviewed ==
  (call.fn = "sendEmailReplaceVariables" /\ call.returned) =>
    call.result = call.arg.preview

\* A token of a text is "{{", one or more characters other than "}", "}}":
\* <<i, j>> are the indices of its first "{" and of its first "}".  A token
\* that begins inside another one is part of that one.
TokensOf(text) ==
  {o \in (1..Len(text)) \X (1..Len(text)) :
     /\ HasAt(text, o[1], <<"{", "{">>)
     /\ o[2] > o[1] + 2
     /\ HasAt(text, o[2], <<"}", "}">>)
     /\ \A k \in (o[1] + 2)..(o[2] - 1) : text[k] # "}"}

OutermostTokensOf(text) ==
  LET tokens == TokensOf(text)
  IN {o \in tokens : ~ \E q \in tokens : q[1] < o[1] /\ q[2] = o[2]}

\* The content of a token without the blanks around it: from its first
\* character that is not a blank to its last one
Unpadded(content) ==
  LET inked == {k \in 1..Len(content) : content[k] # " "}
  IN IF inked = {} THEN <<>>
     ELSE SubSeq(content,
                 CHOOSE k \in inked : \A j \in inked : k <= j,
                 CHOOSE k \in inked : \A j \in inked : k >= j)

TokenName(text, o) == Unpadded(SubSeq(text, o[1] + 2, o[2] - 1))

\* The index at which the first of the tokens with this name begins
FirstTokenNamed(text, tokens, name) ==
  CHOOSE i \in {o[1] : o \in tokens} :
    /\ \E o \in tokens : o[1] = i /\ TokenName(text, o) = name
    /\ \A o \in tokens : TokenName(text, o) = name => o[1] >= i

\* C23: extractVariables returns the names of all {{ ... }} tokens of the
\* text, trimmed, each name once, in the order of their first occurrence,
\* names that differ in case kept apart; a text without tokens and the empty
\* text give the empty list.
C23_ExtractsTrimmedUniqueNamesInOrder ==
  (call.fn = "extractVariables" /\ call.returned) =>
    LET text == call.arg.text
        matches == call.result
        tokens == OutermostTokensOf(text)
    IN /\ Names(matches) = {TokenName(text, o) : o \in tokens}
       /\ \A m, n \in 1..Len(matches) : matches[m] = matches[n] => m = n
       /\ \A m, n \in 1..Len(matches) :
            m < n => FirstTokenNamed(text, tokens, matches[m])
                       < FirstTokenNamed(text, tokens, matches[n])
       /\ (tokens = {} => matches = <<>>)

\* C23 witness: three tokens, one of them written with blanks, two of them
\* with the same name, give two names
C23_RepeatedNameExtractedOnce ==
  /\ call.fn = "extractVariables" /\ call.returned
  /\ Cardinality(OutermostTokensOf(call.arg.text)) = 3
  /\ \E o \in OutermostTokensOf(call.arg.text) :
       SubSeq(call.arg.text, o[1] + 2, o[2] - 1) # TokenName(call.arg.text, o)
  /\ Len(call.result) = 2

\* C28: for a debt with a non-negative original amount and a classification
\* with non-negative amounts, the actual savings calculateFinancialOutcome
\* returns are at least 0 and at most the original amount, whatever
\* prospected savings the debt stores.
C28_SavingsWithinOriginal ==
  (call.fn = "calculateFinancialOutcome" /\ call.returned) =>
    /\ call.result.actualSavings >= 0
    /\ call.result.actualSavings <= call.arg.debt.amount

\* C25: under every interleaving of the handlers of one debt, the
\* conversation count and the negotiation round never decrease, and the
\* round changes only in the step of a reply analysis that classified a
\* counter offer.
C25_CountersMonotone ==
  [][\A id \in DebtIds :
       /\ debts'[id].conversation_count >= debts[id].conversation_count
       /\ debts'[id].negotiation_round >= debts[id].negotiation_round
       /\ debts'[id].negotiation_round # debts[id].negotiation_round =>
            \E p \in Procs :
              /\ pc[p] = "an_update" /\ Stepped(p)
              /\ loc[p].analysis.intent = "counter_offer"]_vars

\* C26: strategy generation, the automatic counter of reply analysis
\* included, changes only the letter (aiEmail) in a debt's metadata: every
\* other sub-record stored before the generation has the same value after.
C26_GenerationKeepsOtherMetadata ==
  [][\A p \in Procs :
       (pc[p] \in {"trigger_negotiate", "neg_update", "an_auto"} /\ Stepped(p)) =>
         \A id \in DebtIds :
           \A f \in DOMAIN debts[id].metadata \ {"aiEmail"} :
             debts'[id].metadata[f] = debts[id].metadata[f]]_vars

\* C24: intake works without the generative service: when parsing falls
\* back to the amount pattern and the email holds a dollar amount, the
\* request stores a debt record with status received.
C24_FallbackStoresDebt ==
  [][\A p \in Procs :
       (pc[p] = "parse_fallback" /\ loc[p].debtInfo.amount > 0 /\ Stepped(p)) =>
         /\ Len(debts') = Len(debts) + 1
         /\ debts'[Len(debts')].status = "received"]_vars

\* C30: reply analysis reports a transition only if it was persisted: when
\* the handler goes on from its update to the audit entries, the automatic
\* counter and the success answer with newStatus and negotiationRound, the
\* stored debt has that status and that round.
C30_ReportedTransitionIsStored ==
  [][\A p \in Procs :
       (pc[p] = "an_update" /\ Stepped(p)) =>
         /\ debts'[loc[p].debt.id].status = loc[p].newStatus
         /\ debts'[loc[p].debt.id].negotiation_round = loc[p].newNegotiationRound]_vars

====
